---------------------------- MODULE Spec2Model ----------------------------
(***************************************************************************)
(* Model of src/app.py: the room registry (rooms_state, connected_clients) *)
(* and the Socket.IO event handlers that mutate it and emit messages.      *)
(*                                                                         *)
(* Spec runs every handler of the registry as one atomic                   *)
(* step (one event processed at a time); the variables last and emitted    *)
(* show the event and its messages until the handler returns.  ConcSpec    *)
(* runs the handlers on two threads, one statement of a handler per step,  *)
(* as the threaded server does; nothing in app.py serialises them.         *)
(* Timestamps (time.time()) are environment inputs drawn from Times.       *)
(* A third specification, CatalogSpec, fills one movie directory with      *)
(* episode files and scans it (scan_movies), in any os.listdir order.      *)
(***************************************************************************)
EXTENDS Integers, Sequences, FiniteSets, TLC

\* ------------------------------------------------------------------ bounds
\* number of events one behaviour processes, handler after handler (Spec)
MaxEvents == 5
\* number of events one behaviour processes with handlers running concurrently
\* (ConcSpec)
MaxConcEvents == 4
\* number of those that start while another handler is still running (ConcSpec)
MaxOverlaps == 1
\* playback positions a client reports are 0..MaxTime
MaxTime == 1
\* number of episode files in the movie directory (CatalogSpec)
MaxFiles == 4

\* ------------------------------------------------------------- input sets
\* sids in the order the transport hands them out
SidOrder == <<"c1", "c2">>
Clients == {SidOrder[i] : i \in 1..Len(SidOrder)}
RoomIds == {"default", "r1"}
ClientTypes == {"player", "controller"}
Movies == {"X"}
Episodes == {"1"}
FilePaths == {"data/X/1.mp4"}
PlayTimes == 0..MaxTime
\* values of time.time()
Times == {1}
\* volume levels in tenths: 10 stands for the float 1.0
DefaultVolume == 10
VolumeLevels == {5}

\* Python's None (the default of dict.get without a second argument)
None == "None"

\* ------------------------------------------------------ event dictionaries
EmptyData == [k \in {} |-> None]
Opt(key, S) == {EmptyData} \cup {(key :> v) : v \in S}
\* data.get(key, default)
Get(data, key, default) == IF key \in DOMAIN data THEN data[key] ELSE default

RoomOpt == Opt("room", RoomIds)
JoinData == {a @@ b : a \in RoomOpt, b \in Opt("type", ClientTypes)}
LeaveData == RoomOpt
PlayEpisodeData ==
    {a @@ b @@ c @@ d : a \in RoomOpt, b \in Opt("movie", Movies),
                        c \in Opt("episode", Episodes), d \in Opt("file_path", FilePaths)}
PlayPauseData == {a @@ b : a \in RoomOpt, b \in Opt("is_playing", BOOLEAN)}
SeekData == {a @@ b : a \in RoomOpt, b \in Opt("time", PlayTimes)}
VolumeData == {a @@ b : a \in RoomOpt, b \in Opt("volume", VolumeLevels)}
FullscreenData == {a @@ b : a \in RoomOpt, b \in Opt("fullscreen", {TRUE})}
TimeUpdateData == SeekData
VideoEndedData == {a @@ b : a \in RoomOpt, b \in Opt("timestamp", Times)}

\* ------------------------------------------------------------------- state
VARIABLES
    rooms_state,        \* room id -> room state dict           (app.py:27)
    connected_clients,  \* sid -> {room, type, joined_at}      (app.py:28)
    sids,               \* sids of the live Socket.IO connections
    closed,             \* sids whose connection has ended (a sid is never reused)
    sio_rooms,          \* sid -> Socket.IO rooms entered with join_room
    emitted,            \* messages emitted by the handler that ran last, in order
    last,               \* the event that was processed last
    handled,            \* number of events taken from the transport so far
    threads,            \* handler thread -> the handler run it executes (ConcSpec)
    applied,            \* ordinals of the events whose state write has run, in order
    overlaps,           \* number of handlers started beside a running one (ConcSpec)
    files               \* episode names of the .mp4 files of a movie directory (CatalogSpec)

vars == <<rooms_state, connected_clients, sids, closed, sio_rooms, emitted, last, handled,
          threads, applied, overlaps, files>>

\* ----------------------------------------------------------- list helpers
\* x in list
Contains(list, x) == \E i \in 1..Len(list) : list[i] = x
\* list.remove(x): drops the first occurrence
RECURSIVE Remove(_, _)
Remove(list, x) ==
    IF list = <<>> THEN <<>>
    ELSE IF Head(list) = x THEN Tail(list)
    ELSE <<Head(list)>> \o Remove(Tail(list), x)
Elems(list) == {list[i] : i \in 1..Len(list)}

\* -------------------------------------------------------------- registry
NewRoom(now) ==
    [current_movie |-> None, current_episode |-> None, is_playing |-> FALSE,
     current_time |-> 0, volume |-> DefaultVolume,
     players |-> <<>>, controllers |-> <<>>, created_at |-> now]

\* get_room_state(room_id): the registry after the call; the returned dict is
\* get_room_state(rs, room_id, now)[room_id]
get_room_state(rs, room_id, now) ==
    IF room_id \notin DOMAIN rs THEN rs @@ (room_id :> NewRoom(now)) ELSE rs

\* the room dict after the membership append of add_client_to_room
add_member(room_state, client_id, client_type) ==
    IF client_type = "player" /\ ~Contains(room_state.players, client_id)
      THEN [room_state EXCEPT !.players = Append(@, client_id)]
    ELSE IF client_type = "controller" /\ ~Contains(room_state.controllers, client_id)
      THEN [room_state EXCEPT !.controllers = Append(@, client_id)]
    ELSE room_state

\* connected_clients[client_id] = {...} of add_client_to_room
set_record(cc, room_id, client_id, client_type, now) ==
    LET rec == [room |-> room_id, type |-> client_type, joined_at |-> now]
    IN IF client_id \in DOMAIN cc THEN [cc EXCEPT ![client_id] = rec]
       ELSE cc @@ (client_id :> rec)

\* variant: a client that joins is first taken out of the lists of every room
add_client_to_room_moves(rs, cc, room_id, client_id, client_type, now) ==
    LET rs0 == [r \in DOMAIN rs |->
                   [rs[r] EXCEPT !.players = Remove(@, client_id),
                                 !.controllers = Remove(@, client_id)]]
        rs1 == get_room_state(rs0, room_id, now)
    IN << [rs1 EXCEPT ![room_id] = add_member(@, client_id, client_type)],
          set_record(cc, room_id, client_id, client_type, now) >>

\* add_client_to_room: the pair <<rooms_state, connected_clients>> after the call
add_client_to_room(rs, cc, room_id, client_id, client_type, now) ==
    LET rs1 == get_room_state(rs, room_id, now)
    IN << [rs1 EXCEPT ![room_id] = add_member(@, client_id, client_type)],
          set_record(cc, room_id, client_id, client_type, now) >>

\* variant: removing a client also pauses the room
remove_member_pauses(room_state, client_id, client_type) ==
    IF client_type = "player" /\ Contains(room_state.players, client_id)
      THEN [room_state EXCEPT !.players = Remove(@, client_id), !.is_playing = FALSE]
    ELSE IF client_type = "controller" /\ Contains(room_state.controllers, client_id)
      THEN [room_state EXCEPT !.controllers = Remove(@, client_id), !.is_playing = FALSE]
    ELSE room_state

\* the room entry after the membership removal of remove_client_from_room
remove_member(room_state, client_id, client_type) ==
    IF client_type = "player" /\ Contains(room_state.players, client_id)
      THEN [room_state EXCEPT !.players = Remove(@, client_id)]
    ELSE IF client_type = "controller" /\ Contains(room_state.controllers, client_id)
      THEN [room_state EXCEPT !.controllers = Remove(@, client_id)]
    ELSE room_state

\* variant: a room left without clients is deleted from the registry
remove_from_rooms_cleans(rs, client_id, client_info) ==
    IF client_info.room \in DOMAIN rs
      THEN LET room_state == remove_member(rs[client_info.room], client_id, client_info.type)
           IN IF room_state.players = <<>> /\ room_state.controllers = <<>>
                THEN [r \in DOMAIN rs \ {client_info.room} |-> rs[r]]
              ELSE [rs EXCEPT ![client_info.room] = room_state]
    ELSE rs

\* the registry's rooms after remove_client_from_room found client_info
remove_from_rooms(rs, client_id, client_info) ==
    IF client_info.room \in DOMAIN rs
      THEN [rs EXCEPT ![client_info.room] = remove_member(@, client_id, client_info.type)]
    ELSE rs

\* variant: the ClientRecord is not deleted
remove_client_from_room_keeps_record(rs, cc, client_id) ==
    IF client_id \in DOMAIN cc
      THEN <<remove_from_rooms(rs, client_id, cc[client_id]), cc>>
    ELSE <<rs, cc>>

\* variant: a client without a ClientRecord is taken out of every list
remove_client_from_room_sweeps(rs, cc, client_id) ==
    IF client_id \in DOMAIN cc
      THEN <<remove_from_rooms(rs, client_id, cc[client_id]),
             [c \in DOMAIN cc \ {client_id} |-> cc[c]]>>
    ELSE <<[r \in DOMAIN rs |->
              [rs[r] EXCEPT !.players = Remove(@, client_id),
                            !.controllers = Remove(@, client_id)]], cc>>

\* remove_client_from_room: the pair <<rooms_state, connected_clients>> after the call
remove_client_from_room(rs, cc, client_id) ==
    IF client_id \in DOMAIN cc
      THEN <<remove_from_rooms(rs, client_id, cc[client_id]),
             [c \in DOMAIN cc \ {client_id} |-> cc[c]]>>
    ELSE <<rs, cc>>

\* api_rooms: the room list and the client count of GET /api/rooms
room_info(rs, room_id) ==
    [id |-> room_id,
     current_movie |-> rs[room_id].current_movie,
     current_episode |-> rs[room_id].current_episode,
     is_playing |-> rs[room_id].is_playing,
     players_count |-> Len(rs[room_id].players),
     controllers_count |-> Len(rs[room_id].controllers),
     created_at |-> rs[room_id].created_at]
\* len(connected_clients)
total_clients(cc) == Cardinality(DOMAIN cc)
\* variant: rooms without clients are left out of the list
api_rooms_occupied(rs, cc) ==
    [rooms |-> {room_info(rs, r) :
                   r \in {o \in DOMAIN rs : rs[o].players # <<>> \/ rs[o].controllers # <<>>}},
     total_clients |-> total_clients(cc)]
api_rooms(rs, cc) ==
    [rooms |-> {room_info(rs, r) : r \in DOMAIN rs},
     total_clients |-> total_clients(cc)]

\* ------------------------------------------------------------- transport
\* the sids a Socket.IO emit with room=room_id is delivered to
RoomRecipients(live, sr, room_id) == {c \in live : room_id \in sr[c]}
\* variant: a broadcast reaches only the clients that entered some room
AllRecipients_joined(live) == {c \in live : sio_rooms[c] # {}}
\* the sids a Socket.IO emit without a room is delivered to
AllRecipients(live) == live
\* one emitted message: event name, payload arguments, the room it is
\* addressed to (None for a broadcast, the caller's sid for a reply), the sids
\* that receive it, and the ordinal of the event whose handler emitted it
MsgBy(id, event, args, room, to) ==
    [event |-> event, args |-> args, room |-> room, to |-> to, by |-> id]
Msg(event, args, room, to) == MsgBy(handled + 1, event, args, room, to)

\* the flask_socketio room operations on the caller's sid
join_room(sr, sid, room_id) == [sr EXCEPT ![sid] = @ \cup {room_id}]
leave_room(sr, sid, room_id) == [sr EXCEPT ![sid] = @ \ {room_id}]

\* the observation of one handler run: the event, the sid it came from (None where
\* the handler does not read request.sid), the room it names, the other values
\* the handler read from the event data, and the room of the ClientRecord that
\* remove_client_from_room deleted (None if it deleted none)
Event(kind, sid, room_id, args, removed_from) ==
    [kind |-> kind, sid |-> sid, room |-> room_id, args |-> args,
     removed_from |-> removed_from]
RecordRoom(cc, sid) == IF sid \in DOMAIN cc THEN cc[sid].room ELSE None
\* no handler has run since the server came up or since the last one returned
NoEvent == Event("none", None, None, EmptyData, None)

\* ---------------------------------------------------------- handler threads
\* With the threading transport every event runs its handler on a thread of its
\* own.  Threads holds the handlers that can be in flight together.
Threads == {"t1", "t2"}
\* a thread's reference to a room dict: none, the dict the registry holds for
\* the room, or a dict the registry no longer holds (obj is its content)
NoRef == [held |-> "none", obj |-> NewRoom(1)]
RegistryRef == [held |-> "registry", obj |-> NewRoom(1)]
OrphanRef(room_state) == [held |-> "orphan", obj |-> room_state]
Idle == [kind |-> "idle", id |-> 0, sid |-> None, data |-> EmptyData,
         pc |-> 0, phase |-> "check", ref |-> NoRef]
\* which of two equal threads runs a handler makes no difference: the running
\* handlers are kept on the first threads
Compact(thr) ==
    IF thr["t1"].kind = "idle" THEN [t \in Threads |-> IF t = "t1" THEN thr["t2"] ELSE Idle]
    ELSE thr

\* ------------------------------------------------------------------- Init
Init ==
    /\ rooms_state = [r \in {} |-> NewRoom(1)]
    /\ connected_clients = [c \in {} |-> [room |-> "default", type |-> "player", joined_at |-> 1]]
    /\ sids = {}
    /\ closed = {}
    /\ sio_rooms = [c \in Clients |-> {}]
    /\ emitted = <<>>
    /\ last = NoEvent
    /\ handled = 0
    /\ threads = [t \in Threads |-> Idle]
    /\ applied = <<>>
    /\ overlaps = 0
    /\ files = {}

\* ---------------------------------------------------------------- handlers
\* a handler starts when the one before it has returned, and every handler run
\* counts against the event budget of the behaviour
Budget ==
    /\ handled < MaxEvents
    /\ last = NoEvent
    /\ handled' = handled + 1
    /\ UNCHANGED <<threads, applied, overlaps, files>>

handle_connect(sid) ==
    /\ Budget
    /\ last' = Event("connect", sid, None, EmptyData, None)
    /\ \E i \in 1..Len(SidOrder) :
          sid = SidOrder[i] /\ \A j \in 1..(i - 1) : SidOrder[j] \in sids \cup closed
    /\ sid \notin sids
    /\ sid \notin closed
    /\ sids' = sids \cup {sid}
    /\ emitted' = <<>>
    /\ UNCHANGED <<rooms_state, connected_clients, closed, sio_rooms>>

handle_disconnect(sid) ==
    /\ Budget
    /\ last' = Event("disconnect", sid, None, EmptyData,
                   RecordRoom(connected_clients, sid))
    /\ sid \in sids
    /\ LET res == remove_client_from_room(rooms_state, connected_clients, sid)
       IN /\ rooms_state' = res[1]
          /\ connected_clients' = res[2]
    /\ sids' = sids \ {sid}
    /\ closed' = closed \cup {sid}
    /\ sio_rooms' = [sio_rooms EXCEPT ![sid] = {}]
    /\ emitted' = <<Msg("rooms_update", <<>>, None, AllRecipients(sids'))>>
    /\ last' = Event("disconnect", sid, None, EmptyData,
                   RecordRoom(connected_clients, sid))

handle_join_room(sid, data, now) ==
    /\ Budget
    /\ last' = Event("join_room", sid, Get(data, "room", "default"),
                   [type |-> Get(data, "type", "unknown")], None)
    /\ sid \in sids
    /\ LET room_id == Get(data, "room", "default")
           client_type == Get(data, "type", "unknown")
           res == add_client_to_room(rooms_state, connected_clients, room_id, sid,
                                     client_type, now)
           rs == get_room_state(res[1], room_id, now)
       IN /\ sio_rooms' = join_room(sio_rooms, sid, room_id)
          /\ rooms_state' = rs
          /\ connected_clients' = res[2]
          /\ emitted' = << Msg("state_update", <<rs[room_id]>>, sid, {sid}),
                           Msg("room_joined", <<[room |-> room_id, type |-> client_type]>>, sid, {sid}),
                           Msg("rooms_update", <<>>, None, AllRecipients(sids)) >>
    /\ UNCHANGED <<sids, closed>>

handle_leave_room(sid, data) ==
    /\ Budget
    /\ last' = Event("leave_room", sid, Get(data, "room", "default"), EmptyData,
                   RecordRoom(connected_clients, sid))
    /\ sid \in sids
    /\ LET room_id == Get(data, "room", "default")
           res == remove_client_from_room(rooms_state, connected_clients, sid)
       IN /\ sio_rooms' = leave_room(sio_rooms, sid, room_id)
          /\ rooms_state' = res[1]
          /\ connected_clients' = res[2]
    /\ emitted' = <<Msg("rooms_update", <<>>, None, AllRecipients(sids))>>
    /\ UNCHANGED <<sids, closed>>

\* GET /api/state/<room_id>
api_room_state(room_id, now) ==
    /\ Budget
    /\ last' = Event("api_room_state", None, room_id, EmptyData, None)
    /\ rooms_state' = get_room_state(rooms_state, room_id, now)
    /\ emitted' = <<>>
    /\ UNCHANGED <<connected_clients, sids, closed, sio_rooms>>

\* GET /api/rooms: the response is shown in last.args
api_rooms_route ==
    /\ Budget
    /\ last' = Event("api_rooms", None, None, api_rooms(rooms_state, connected_clients), None)
    /\ emitted' = <<>>
    /\ UNCHANGED <<rooms_state, connected_clients, sids, closed, sio_rooms>>

\* variant: the position is not reset
play_episode_update_keeps_time(room_state, movie, episode) ==
    [room_state EXCEPT !.current_movie = movie, !.current_episode = episode,
                       !.is_playing = TRUE]
\* room_state.update({...}) of handle_play_episode
play_episode_update(room_state, movie, episode) ==
    [room_state EXCEPT !.current_movie = movie, !.current_episode = episode,
                       !.is_playing = TRUE, !.current_time = 0]

handle_play_episode(data, now) ==
    /\ Budget
    /\ last' = Event("play_episode", None, Get(data, "room", "default"),
                   [movie |-> Get(data, "movie", None),
                    episode |-> Get(data, "episode", None),
                    file_path |-> Get(data, "file_path", None)], None)
    /\ sids # {}
    /\ LET room_id == Get(data, "room", "default")
           movie == Get(data, "movie", None)
           episode == Get(data, "episode", None)
           rs == [get_room_state(rooms_state, room_id, now) EXCEPT
                     ![room_id] = play_episode_update(@, movie, episode)]
       IN /\ rooms_state' = rs
          /\ emitted' = << Msg("play_episode",
                               <<[movie |-> movie, episode |-> episode,
                                  file_path |-> Get(data, "file_path", None)]>>,
                               room_id, RoomRecipients(sids, sio_rooms, room_id)),
                           Msg("state_update", <<rs[room_id]>>,
                               room_id, RoomRecipients(sids, sio_rooms, room_id)),
                           Msg("rooms_update", <<>>, None, AllRecipients(sids)) >>
    /\ UNCHANGED <<connected_clients, sids, closed, sio_rooms>>

handle_play_pause(data, now) ==
    /\ Budget
    /\ last' = Event("play_pause", None, Get(data, "room", "default"),
                   [is_playing |-> Get(data, "is_playing", FALSE)], None)
    /\ sids # {}
    /\ LET room_id == Get(data, "room", "default")
           is_playing == Get(data, "is_playing", FALSE)
           rs == [get_room_state(rooms_state, room_id, now) EXCEPT
                     ![room_id].is_playing = is_playing]
       IN /\ rooms_state' = rs
          /\ emitted' = << Msg("play_pause", <<[is_playing |-> is_playing]>>,
                               room_id, RoomRecipients(sids, sio_rooms, room_id)),
                           Msg("state_update", <<rs[room_id]>>,
                               room_id, RoomRecipients(sids, sio_rooms, room_id)),
                           Msg("rooms_update", <<>>, None, AllRecipients(sids)) >>
    /\ UNCHANGED <<connected_clients, sids, closed, sio_rooms>>

\* variant: a seek announces the room list as well
handle_seek_announced(data, now) ==
    /\ Budget
    /\ last' = Event("seek", None, Get(data, "room", "default"),
                   [time |-> Get(data, "time", 0)], None)
    /\ sids # {}
    /\ LET room_id == Get(data, "room", "default")
           seek_time == Get(data, "time", 0)
           rs == [get_room_state(rooms_state, room_id, now) EXCEPT
                     ![room_id].current_time = seek_time]
       IN /\ rooms_state' = rs
          /\ emitted' = << Msg("seek", <<[time |-> seek_time]>>,
                               room_id, RoomRecipients(sids, sio_rooms, room_id)),
                           Msg("state_update", <<rs[room_id]>>,
                               room_id, RoomRecipients(sids, sio_rooms, room_id)),
                           Msg("rooms_update", <<>>, None, AllRecipients(sids)) >>
    /\ UNCHANGED <<connected_clients, sids, closed, sio_rooms>>

handle_seek(data, now) ==
    /\ Budget
    /\ last' = Event("seek", None, Get(data, "room", "default"),
                   [time |-> Get(data, "time", 0)], None)
    /\ sids # {}
    /\ LET room_id == Get(data, "room", "default")
           seek_time == Get(data, "time", 0)
           rs == [get_room_state(rooms_state, room_id, now) EXCEPT
                     ![room_id].current_time = seek_time]
       IN /\ rooms_state' = rs
          /\ emitted' = << Msg("seek", <<[time |-> seek_time]>>,
                               room_id, RoomRecipients(sids, sio_rooms, room_id)),
                           Msg("state_update", <<rs[room_id]>>,
                               room_id, RoomRecipients(sids, sio_rooms, room_id)) >>
    /\ UNCHANGED <<connected_clients, sids, closed, sio_rooms>>

\* variant: a missing volume level is applied as 0
handle_volume_silent(data, now) ==
    /\ Budget
    /\ last' = Event("volume", None, Get(data, "room", "default"),
                   [volume |-> Get(data, "volume", 0)], None)
    /\ sids # {}
    /\ LET room_id == Get(data, "room", "default")
           volume == Get(data, "volume", 0)
           rs == [get_room_state(rooms_state, room_id, now) EXCEPT
                     ![room_id].volume = volume]
       IN /\ rooms_state' = rs
          /\ emitted' = << Msg("volume", <<[volume |-> volume]>>,
                               room_id, RoomRecipients(sids, sio_rooms, room_id)),
                           Msg("state_update", <<rs[room_id]>>,
                               room_id, RoomRecipients(sids, sio_rooms, room_id)) >>
    /\ UNCHANGED <<connected_clients, sids, closed, sio_rooms>>

handle_volume(data, now) ==
    /\ Budget
    /\ last' = Event("volume", None, Get(data, "room", "default"),
                   [volume |-> Get(data, "volume", DefaultVolume)], None)
    /\ sids # {}
    /\ LET room_id == Get(data, "room", "default")
           volume == Get(data, "volume", DefaultVolume)
           rs == [get_room_state(rooms_state, room_id, now) EXCEPT
                     ![room_id].volume = volume]
       IN /\ rooms_state' = rs
          /\ emitted' = << Msg("volume", <<[volume |-> volume]>>,
                               room_id, RoomRecipients(sids, sio_rooms, room_id)),
                           Msg("state_update", <<rs[room_id]>>,
                               room_id, RoomRecipients(sids, sio_rooms, room_id)) >>
    /\ UNCHANGED <<connected_clients, sids, closed, sio_rooms>>

handle_fullscreen(data) ==
    /\ Budget
    /\ last' = Event("fullscreen", None, Get(data, "room", "default"), data, None)
    /\ sids # {}
    /\ LET room_id == Get(data, "room", "default")
       IN emitted' = << Msg("fullscreen", <<data>>,
                            room_id, RoomRecipients(sids, sio_rooms, room_id)) >>
    /\ UNCHANGED <<rooms_state, connected_clients, sids, closed, sio_rooms>>

\* variant: the time report is rebroadcast like a seek
handle_time_update_rebroadcast(data, now) ==
    /\ Budget
    /\ last' = Event("time_update", None, Get(data, "room", "default"),
                   [time |-> Get(data, "time", 0)], None)
    /\ sids # {}
    /\ LET room_id == Get(data, "room", "default")
           current_time == Get(data, "time", 0)
           rs == [get_room_state(rooms_state, room_id, now) EXCEPT
                     ![room_id].current_time = current_time]
       IN /\ rooms_state' = rs
          /\ emitted' = << Msg("state_update", <<rs[room_id]>>,
                               room_id, RoomRecipients(sids, sio_rooms, room_id)) >>
    /\ UNCHANGED <<connected_clients, sids, closed, sio_rooms>>

handle_time_update(data, now) ==
    /\ Budget
    /\ last' = Event("time_update", None, Get(data, "room", "default"),
                   [time |-> Get(data, "time", 0)], None)
    /\ sids # {}
    /\ LET room_id == Get(data, "room", "default")
           current_time == Get(data, "time", 0)
       IN rooms_state' = [get_room_state(rooms_state, room_id, now) EXCEPT
                             ![room_id].current_time = current_time]
    /\ emitted' = <<>>
    /\ UNCHANGED <<connected_clients, sids, closed, sio_rooms>>

handle_video_ended(data, now) ==
    /\ Budget
    /\ last' = Event("video_ended", None, Get(data, "room", "default"),
                   [timestamp |-> Get(data, "timestamp", now)], None)
    /\ sids # {}
    /\ LET room_id == Get(data, "room", "default")
           rs == [get_room_state(rooms_state, room_id, now) EXCEPT
                     ![room_id].is_playing = FALSE]
       IN /\ rooms_state' = rs
          /\ emitted' = << Msg("video_ended",
                               <<[room |-> room_id,
                                  movie |-> rs[room_id].current_movie,
                                  episode |-> rs[room_id].current_episode,
                                  timestamp |-> Get(data, "timestamp", now)]>>,
                               room_id, RoomRecipients(sids, sio_rooms, room_id)),
                           Msg("state_update", <<rs[room_id]>>,
                               room_id, RoomRecipients(sids, sio_rooms, room_id)),
                           Msg("rooms_update", <<>>, None, AllRecipients(sids)) >>
    /\ UNCHANGED <<connected_clients, sids, closed, sio_rooms>>

\* one event is taken from the transport and its handler runs to completion
Handle ==
    \/ \E sid \in Clients : handle_connect(sid)
    \/ \E sid \in Clients : handle_disconnect(sid)
    \/ \E sid \in Clients, data \in JoinData, now \in Times : handle_join_room(sid, data, now)
    \/ \E sid \in Clients, data \in LeaveData : handle_leave_room(sid, data)
    \/ \E room_id \in RoomIds, now \in Times : api_room_state(room_id, now)
    \/ api_rooms_route
    \/ \E data \in PlayEpisodeData, now \in Times :
            handle_play_episode(data, now)
    \/ \E data \in PlayPauseData, now \in Times :
            handle_play_pause(data, now)
    \/ \E data \in SeekData, now \in Times : handle_seek(data, now)
    \/ \E data \in VolumeData, now \in Times : handle_volume(data, now)
    \/ \E data \in FullscreenData : handle_fullscreen(data)
    \/ \E data \in TimeUpdateData, now \in Times :
            handle_time_update(data, now)
    \/ \E data \in VideoEndedData, now \in Times :
            handle_video_ended(data, now)

\* the handler returns: its event and the messages it emitted are history
Return ==
    /\ last # NoEvent
    /\ last' = NoEvent
    /\ emitted' = <<>>
    /\ UNCHANGED <<rooms_state, connected_clients, sids, closed, sio_rooms, handled,
                   threads, applied, overlaps, files>>

Next == Handle \/ Return

Spec == Init /\ [][Next]_vars

\* ------------------------------------------------- concurrent handler runs
\* The statements of each handler that touch shared state, in program order.
\* "get" is a call of get_room_state; the other names are one statement each.
Program(kind) ==
    CASE kind = "connect" -> <<"print">>
      [] kind = "disconnect" -> <<"remove", "emit_rooms">>
      [] kind = "join_room" -> <<"sio_join", "get", "add_member", "set_record", "get",
                                 "emit_state_self", "emit_joined", "emit_rooms">>
      [] kind = "leave_room" -> <<"sio_leave", "remove", "emit_rooms">>
      [] kind = "api_room_state" -> <<"get">>
      [] kind \in {"play_episode", "play_pause", "video_ended"}
            -> <<"get", "write", "emit_directive", "emit_state", "emit_rooms">>
      [] kind \in {"seek", "volume"} -> <<"get", "write", "emit_directive", "emit_state">>
      [] kind = "fullscreen" -> <<"emit_directive">>
      [] kind = "time_update" -> <<"get", "write">>
      [] OTHER -> <<>>

Running(t) == threads[t].kind # "idle"
\* the statement thread t executes next
Instr(t) == IF Running(t) THEN Program(threads[t].kind)[threads[t].pc] ELSE "none"
RoomOf(t) ==
    IF threads[t].kind = "api_room_state" THEN threads[t].data["room"]
    ELSE Get(threads[t].data, "room", "default")
\* the thread after its current statement: the next statement, or idle at the end
Advance(th) ==
    IF th.pc = Len(Program(th.kind)) THEN Idle
    ELSE [th EXCEPT !.pc = @ + 1, !.phase = "check"]
\* the dict a thread's room_state variable refers to
Deref(t) ==
    IF threads[t].ref.held = "registry" THEN rooms_state[RoomOf(t)] ELSE threads[t].ref.obj

\* the event data the concurrent runs draw from: every event names the room
\* "default" (by omission), so that the handlers in flight share a room
EventData(kind) ==
    CASE kind = "join_room" -> {d \in JoinData : "room" \notin DOMAIN d /\ "type" \in DOMAIN d}
      [] kind = "leave_room" -> {EmptyData}
      [] kind = "api_room_state" -> {("room" :> "default")}
      [] kind = "play_episode"
            -> {d \in PlayEpisodeData : DOMAIN d = {"movie", "episode", "file_path"}}
      [] kind = "play_pause" -> {d \in PlayPauseData : "room" \notin DOMAIN d}
      [] kind = "seek" -> {d \in SeekData : DOMAIN d = {"time"} /\ d["time"] > 0}
      [] kind = "volume" -> {d \in VolumeData : DOMAIN d = {"volume"}}
      [] kind = "fullscreen" -> {EmptyData}
      [] kind = "time_update" -> {d \in TimeUpdateData : DOMAIN d = {"time"} /\ d["time"] > 0}
      [] kind = "video_ended" -> {EmptyData}
      [] OTHER -> {EmptyData}
\* the events whose handlers rebroadcast to the room they name
RoomCommands == {"play_episode", "play_pause", "seek", "volume", "fullscreen", "video_ended"}
\* the events whose handlers read request.sid
SidEvents == {"connect", "disconnect", "join_room", "leave_room"}
EventKinds == SidEvents \cup RoomCommands \cup {"time_update", "api_room_state"}

\* the room dict after the state write of a command handler
Written(kind, data, room_state) ==
    CASE kind = "play_episode"
            -> play_episode_update(room_state, Get(data, "movie", None),
                                   Get(data, "episode", None))
      [] kind = "play_pause" -> [room_state EXCEPT !.is_playing = Get(data, "is_playing", FALSE)]
      [] kind = "seek" -> [room_state EXCEPT !.current_time = Get(data, "time", 0)]
      [] kind = "volume" -> [room_state EXCEPT !.volume = Get(data, "volume", DefaultVolume)]
      [] kind = "time_update" -> [room_state EXCEPT !.current_time = Get(data, "time", 0)]
      [] kind = "video_ended" -> [room_state EXCEPT !.is_playing = FALSE]
      [] OTHER -> room_state

\* the payload of the directive a command handler emits to the room
Directive(kind, data, room_id, room_state, now) ==
    CASE kind = "play_episode"
            -> [movie |-> Get(data, "movie", None), episode |-> Get(data, "episode", None),
                file_path |-> Get(data, "file_path", None)]
      [] kind = "play_pause" -> [is_playing |-> Get(data, "is_playing", FALSE)]
      [] kind = "seek" -> [time |-> Get(data, "time", 0)]
      [] kind = "volume" -> [volume |-> Get(data, "volume", DefaultVolume)]
      [] kind = "video_ended"
            -> [room |-> room_id, movie |-> room_state.current_movie,
                episode |-> room_state.current_episode,
                timestamp |-> Get(data, "timestamp", now)]
      [] OTHER -> data

\* The transport hands an event to a free thread.  The logs restart when no
\* other handler is in flight.  A connection's events are not run together with
\* its connect or disconnect handler.
Start(t, kind, sid, data) ==
    /\ handled < MaxConcEvents
    /\ ~Running(t)
    /\ \A o \in Threads : ~Running(o) /\ o # t => t = "t1"
    /\ CASE kind = "connect" ->
              /\ sid \notin sids \cup closed
              /\ \E i \in 1..Len(SidOrder) :
                    sid = SidOrder[i] /\ \A j \in 1..(i - 1) : SidOrder[j] \in sids \cup closed
              /\ \A o \in Threads : threads[o].kind # "connect"
         [] kind \in {"join_room", "leave_room"} ->
              /\ sid \in sids
              /\ \A o \in Threads : ~(threads[o].kind = "connect" /\ threads[o].sid = sid)
         [] kind = "disconnect" ->
              /\ sid \in sids
              /\ \A o \in Threads : threads[o].sid # sid
         [] kind = "api_room_state" -> sid = None
         [] OTHER -> sid = None /\ sids # {}
    /\ handled' = handled + 1
    /\ IF \A o \in Threads : ~Running(o) THEN UNCHANGED overlaps
       ELSE overlaps < MaxOverlaps /\ overlaps' = overlaps + 1
    /\ threads' = [threads EXCEPT ![t] =
                      [kind |-> kind, id |-> handled + 1, sid |-> sid, data |-> data,
                       pc |-> 1, phase |-> "check", ref |-> NoRef]]
    /\ sids' = IF kind = "connect" THEN sids \cup {sid}
               ELSE IF kind = "disconnect" THEN sids \ {sid} ELSE sids
    /\ closed' = IF kind = "disconnect" THEN closed \cup {sid} ELSE closed
    /\ sio_rooms' = IF kind = "disconnect" THEN [sio_rooms EXCEPT ![sid] = {}] ELSE sio_rooms
    /\ IF \A o \in Threads : ~Running(o)
         THEN emitted' = <<>> /\ applied' = <<>>
         ELSE UNCHANGED <<emitted, applied>>
    /\ UNCHANGED <<rooms_state, connected_clients, last, files>>

\* print(...) of handle_connect
LogConnect(t) ==
    /\ Instr(t) = "print"
    /\ threads' = Compact([threads EXCEPT ![t] = Advance(@)])
    /\ UNCHANGED <<rooms_state, connected_clients, sids, closed, sio_rooms, emitted, last,
                   handled, applied, overlaps, files>>

\* get_room_state, the test "room_id not in rooms_state": a known room is
\* returned at once, an unknown one is created next
GetCheck(t) ==
    /\ Instr(t) = "get"
    /\ threads[t].phase = "check"
    /\ threads' = Compact([threads EXCEPT ![t] =
                      IF RoomOf(t) \in DOMAIN rooms_state
                        THEN Advance([@ EXCEPT !.ref = RegistryRef])
                      ELSE [@ EXCEPT !.phase = "create"]])
    /\ UNCHANGED <<rooms_state, connected_clients, sids, closed, sio_rooms, emitted, last,
                   handled, applied, overlaps, files>>

\* get_room_state, rooms_state[room_id] = {...}: a dict stored there meanwhile
\* is replaced, and the threads that refer to it keep it
GetCreate(t, now) ==
    /\ Instr(t) = "get"
    /\ threads[t].phase = "create"
    /\ LET r == RoomOf(t)
       IN /\ rooms_state' = IF r \in DOMAIN rooms_state
                              THEN [rooms_state EXCEPT ![r] = NewRoom(now)]
                            ELSE rooms_state @@ (r :> NewRoom(now))
          /\ threads' = [o \in Threads |->
                            IF o = t THEN [threads[o] EXCEPT !.phase = "return"]
                            ELSE IF Running(o) /\ threads[o].ref.held = "registry"
                                    /\ RoomOf(o) = r
                              THEN [threads[o] EXCEPT !.ref = OrphanRef(rooms_state[r])]
                            ELSE threads[o]]
    /\ UNCHANGED <<connected_clients, sids, closed, sio_rooms, emitted, last, handled, applied,
                   overlaps, files>>

\* get_room_state, return rooms_state[room_id]
GetReturn(t) ==
    /\ Instr(t) = "get"
    /\ threads[t].phase = "return"
    /\ threads' = Compact([threads EXCEPT ![t] = Advance([@ EXCEPT !.ref = RegistryRef])])
    /\ UNCHANGED <<rooms_state, connected_clients, sids, closed, sio_rooms, emitted, last,
                   handled, applied, overlaps, files>>

\* a write through a thread's room_state variable
StoreThrough(t, room_state, th) ==
    IF threads[t].ref.held = "registry"
      THEN /\ rooms_state' = [rooms_state EXCEPT ![RoomOf(t)] = room_state]
           /\ threads' = Compact([threads EXCEPT ![t] = Advance(th)])
    ELSE /\ UNCHANGED rooms_state
         /\ threads' = Compact([threads EXCEPT
                                   ![t] = Advance([th EXCEPT !.ref = OrphanRef(room_state)])])

\* the state write of a command handler
Write(t) ==
    /\ Instr(t) = "write"
    /\ StoreThrough(t, Written(threads[t].kind, threads[t].data, Deref(t)), threads[t])
    /\ applied' = Append(applied, threads[t].id)
    /\ UNCHANGED <<connected_clients, sids, closed, sio_rooms, emitted, last, handled,
                   overlaps, files>>

\* socketio.emit(<event>, {...}, room=room_id) of a command handler
EmitDirective(t, now) ==
    /\ Instr(t) = "emit_directive"
    /\ emitted' = Append(emitted,
          MsgBy(threads[t].id, threads[t].kind,
                <<Directive(threads[t].kind, threads[t].data, RoomOf(t),
                            IF threads[t].kind = "fullscreen" THEN NewRoom(1) ELSE Deref(t),
                            now)>>,
                RoomOf(t), RoomRecipients(sids, sio_rooms, RoomOf(t))))
    /\ threads' = Compact([threads EXCEPT ![t] = Advance(@)])
    /\ UNCHANGED <<rooms_state, connected_clients, sids, closed, sio_rooms, last, handled,
                   applied, overlaps, files>>

\* socketio.emit('state_update', room_state, room=room_id)
EmitState(t) ==
    /\ Instr(t) = "emit_state"
    /\ emitted' = Append(emitted,
          MsgBy(threads[t].id, "state_update", <<Deref(t)>>,
                RoomOf(t), RoomRecipients(sids, sio_rooms, RoomOf(t))))
    /\ threads' = Compact([threads EXCEPT ![t] = Advance(@)])
    /\ UNCHANGED <<rooms_state, connected_clients, sids, closed, sio_rooms, last, handled,
                   applied, overlaps, files>>

\* socketio.emit('rooms_update')
EmitRooms(t) ==
    /\ Instr(t) = "emit_rooms"
    /\ emitted' = Append(emitted, MsgBy(threads[t].id, "rooms_update", <<>>, None, AllRecipients(sids)))
    /\ threads' = Compact([threads EXCEPT ![t] = Advance(@)])
    /\ UNCHANGED <<rooms_state, connected_clients, sids, closed, sio_rooms, last, handled,
                   applied, overlaps, files>>

\* join_room(room_id) of handle_join_room
SioJoin(t) ==
    /\ Instr(t) = "sio_join"
    /\ sio_rooms' = join_room(sio_rooms, threads[t].sid, RoomOf(t))
    /\ threads' = Compact([threads EXCEPT ![t] = Advance(@)])
    /\ UNCHANGED <<rooms_state, connected_clients, sids, closed, emitted, last, handled,
                   applied, overlaps, files>>

\* leave_room(room_id) of handle_leave_room
SioLeave(t) ==
    /\ Instr(t) = "sio_leave"
    /\ sio_rooms' = leave_room(sio_rooms, threads[t].sid, RoomOf(t))
    /\ threads' = Compact([threads EXCEPT ![t] = Advance(@)])
    /\ UNCHANGED <<rooms_state, connected_clients, sids, closed, emitted, last, handled,
                   applied, overlaps, files>>

\* the membership append of add_client_to_room
AddMember(t) ==
    /\ Instr(t) = "add_member"
    /\ StoreThrough(t, add_member(Deref(t), threads[t].sid,
                                  Get(threads[t].data, "type", "unknown")), threads[t])
    /\ UNCHANGED <<connected_clients, sids, closed, sio_rooms, emitted, last, handled, applied,
                   overlaps, files>>

\* connected_clients[client_id] = {...} of add_client_to_room
SetRecord(t, now) ==
    /\ Instr(t) = "set_record"
    /\ connected_clients' = set_record(connected_clients, RoomOf(t), threads[t].sid,
                                       Get(threads[t].data, "type", "unknown"), now)
    /\ threads' = Compact([threads EXCEPT ![t] = Advance(@)])
    /\ UNCHANGED <<rooms_state, sids, closed, sio_rooms, emitted, last, handled, applied,
                   overlaps, files>>

\* remove_client_from_room(request.sid) of handle_leave_room and handle_disconnect;
\* the threads that refer to a room dict see its lists change with it
RemoveClient(t) ==
    /\ Instr(t) = "remove"
    /\ LET res == remove_client_from_room(rooms_state, connected_clients, threads[t].sid)
       IN /\ rooms_state' = res[1]
          /\ connected_clients' = res[2]
    /\ threads' = Compact([threads EXCEPT ![t] = Advance(@)])
    /\ UNCHANGED <<sids, closed, sio_rooms, emitted, last, handled, applied,
                   overlaps, files>>

\* emit('state_update', room_state) of handle_join_room, to the caller alone
EmitStateSelf(t) ==
    /\ Instr(t) = "emit_state_self"
    /\ emitted' = Append(emitted,
          MsgBy(threads[t].id, "state_update", <<Deref(t)>>, threads[t].sid, {threads[t].sid} \cap sids))
    /\ threads' = Compact([threads EXCEPT ![t] = Advance(@)])
    /\ UNCHANGED <<rooms_state, connected_clients, sids, closed, sio_rooms, last, handled,
                   applied, overlaps, files>>

\* emit('room_joined', {...}) of handle_join_room, to the caller alone
EmitJoined(t) ==
    /\ Instr(t) = "emit_joined"
    /\ emitted' = Append(emitted,
          MsgBy(threads[t].id, "room_joined",
                <<[room |-> RoomOf(t), type |-> Get(threads[t].data, "type", "unknown")]>>,
                threads[t].sid, {threads[t].sid} \cap sids))
    /\ threads' = Compact([threads EXCEPT ![t] = Advance(@)])
    /\ UNCHANGED <<rooms_state, connected_clients, sids, closed, sio_rooms, last, handled,
                   applied, overlaps, files>>

ConcNext ==
    \/ \E t \in Threads, kind \in EventKinds :
          \E sid \in (IF kind \in SidEvents THEN Clients ELSE {None}),
             data \in EventData(kind) : Start(t, kind, sid, data)
    \/ \E t \in Threads : LogConnect(t)
    \/ \E t \in Threads : GetCheck(t)
    \/ \E t \in Threads, now \in Times : GetCreate(t, now)
    \/ \E t \in Threads : GetReturn(t)
    \/ \E t \in Threads : Write(t)
    \/ \E t \in Threads, now \in Times : EmitDirective(t, now)
    \/ \E t \in Threads : EmitState(t)
    \/ \E t \in Threads : EmitRooms(t)
    \/ \E t \in Threads : SioJoin(t)
    \/ \E t \in Threads : SioLeave(t)
    \/ \E t \in Threads : AddMember(t)
    \/ \E t \in Threads, now \in Times : SetRecord(t, now)
    \/ \E t \in Threads : RemoveClient(t)
    \/ \E t \in Threads : EmitStateSelf(t)
    \/ \E t \in Threads : EmitJoined(t)

ConcSpec == Init /\ [][ConcNext]_vars

\* ----------------------------------------------------------- media catalog
\* An episode name is the file name without ".mp4", a string, modelled as the
\* sequence of its characters.
\* the characters of the episode names, in code point order
CodePoints == <<"0", "1", "2", "9", "a", "b", "c", "e", "p", "x">>
Digits == <<"0", "1", "2", "3", "4", "5", "6", "7", "8", "9">>
\* episode names found in a movie directory
EpisodeNames ==
    { <<"1">>, <<"2">>, <<"1", "0">>, <<"a", "b", "c">>,
      <<"0", "1">>, <<"e", "p", "2">>, <<"1", "x", "9">>, <<"a", "b">>, <<>> }
\* position of a character in the code point order
ord(c) == CHOOSE i \in 1..Len(CodePoints) : CodePoints[i] = c
\* \d of the regular expression
isdigit(c) == \E d \in 1..Len(Digits) : Digits[d] = c
\* value of a decimal digit
digit(c) == (CHOOSE d \in 1..Len(Digits) : Digits[d] = c) - 1

RECURSIVE int(_)
\* int(s) of a string of decimal digits
int(s) == IF s = <<>> THEN 0 ELSE int(SubSeq(s, 1, Len(s) - 1)) * 10 + digit(s[Len(s)])

RECURSIVE match_digits(_)
\* the longest run of digits at the start of s: one match of \d+
match_digits(s) ==
    IF s # <<>> /\ isdigit(Head(s)) THEN <<Head(s)>> \o match_digits(Tail(s)) ELSE <<>>

RECURSIVE findall(_)
\* re.findall(r'\d+', s): the runs of digits of s, left to right
findall(s) ==
    IF s = <<>> THEN <<>>
    ELSE IF isdigit(Head(s))
         THEN LET m == match_digits(s)
              IN <<m>> \o findall(SubSeq(s, Len(m) + 1, Len(s)))
         ELSE findall(Tail(s))

RECURSIVE str_lt(_, _)
\* a < b on strings: by code point, a proper prefix first
str_lt(a, b) ==
    IF b = <<>> THEN FALSE
    ELSE IF a = <<>> THEN TRUE
    ELSE IF Head(a) # Head(b) THEN ord(Head(a)) < ord(Head(b))
    ELSE str_lt(Tail(a), Tail(b))

\* variant: the key is the name alone
natural_sort_key_lexical(episode_name) ==
    [inf |-> FALSE, main_number |-> 0, episode_name |-> episode_name]

\* the key (main_number, episode_name), or (float('inf'), episode_name) for a
\* name without a number
natural_sort_key(episode_name) ==
    LET numbers == findall(episode_name)
    IN IF numbers # <<>>
       THEN [inf |-> FALSE, main_number |-> int(numbers[1]), episode_name |-> episode_name]
       ELSE [inf |-> TRUE, main_number |-> 0, episode_name |-> episode_name]

\* k1 < k2 on keys: tuple comparison, the numbers first, then the names
key_lt(k1, k2) ==
    LET number_lt == ~k1.inf /\ (k2.inf \/ k1.main_number < k2.main_number)
        number_eq == k1.inf = k2.inf /\ (k1.inf \/ k1.main_number = k2.main_number)
    IN number_lt \/ (number_eq /\ str_lt(k1.episode_name, k2.episode_name))

RECURSIVE sort(_)
\* list.sort(key=natural_sort_key): ascending by key and stable
sort(episodes) ==
    IF episodes = <<>> THEN <<>>
    ELSE LET x == episodes[Len(episodes)]
             sorted == sort(SubSeq(episodes, 1, Len(episodes) - 1))
             after(e) == key_lt(natural_sort_key(x), natural_sort_key(e))
             upto(e) == ~after(e)
         IN SelectSeq(sorted, upto) \o <<x>> \o SelectSeq(sorted, after)

\* the episodes of a movie, from the directory listing of its files
scan_movies(listing) == sort(listing)

\* os.listdir: the names of a directory, each once, in arbitrary order
listdir(names) ==
    {l \in [1..Cardinality(names) -> names] : \A i, j \in DOMAIN l : l[i] = l[j] => i = j}

\* a video file is put into the movie directory
create_file(episode_name) ==
    /\ last = NoEvent
    /\ Cardinality(files) < MaxFiles
    /\ episode_name \notin files
    /\ files' = files \cup {episode_name}
    /\ UNCHANGED <<rooms_state, connected_clients, sids, closed, sio_rooms, emitted, last,
                   handled, threads, applied, overlaps>>

\* GET /api/movies
api_movies ==
    /\ last = NoEvent
    /\ \E listing \in listdir(files) :
          last' = Event("api_movies", None, None,
                        [listing |-> listing, episodes |-> scan_movies(listing)], None)
    /\ UNCHANGED <<rooms_state, connected_clients, sids, closed, sio_rooms, emitted,
                   handled, threads, applied, overlaps, files>>

CatalogNext ==
    \/ \E episode_name \in EpisodeNames : create_file(episode_name)
    \/ api_movies
    \/ Return

CatalogSpec == Init /\ [][CatalogNext]_vars

\* ------------------------------------------------------------------ claims
\* the registry members of a room: the union of its player and controller lists
Members(rs, room_id) ==
    IF room_id \in DOMAIN rs
      THEN Elems(rs[room_id].players) \cup Elems(rs[room_id].controllers)
    ELSE {}
HasRecord(cc, c, room_id, type) ==
    c \in DOMAIN cc /\ cc[c].room = room_id /\ cc[c].type = type
\* the playback fields of a room entry
Playback(room_state) ==
    <<room_state.current_movie, room_state.current_episode, room_state.is_playing,
      room_state.current_time, room_state.volume>>
\* number of live ClientRecords: total_clients of api_rooms
TotalClients(cc) == total_clients(cc)
\* positions in the emitted sequence
EmittedAt == 1..Len(emitted)

\* C1: room membership and client records are exact inverses: c is in room r's
\* player (controller) list iff a ClientRecord for c has room = r and
\* type = player (controller); hence every live record's client is a member of
\* exactly one room in exactly one role.
C1_MembershipInverse ==
    /\ \A c \in Clients, r \in DOMAIN rooms_state :
          /\ Contains(rooms_state[r].players, c)
                <=> HasRecord(connected_clients, c, r, "player")
          /\ Contains(rooms_state[r].controllers, c)
                <=> HasRecord(connected_clients, c, r, "controller")
    /\ \A c \in DOMAIN connected_clients :
          /\ connected_clients[c].room \in DOMAIN rooms_state
          /\ connected_clients[c].type \in ClientTypes

\* how one handler run changes the number of live ClientRecords, where a join
\* counts as join_delta
CountStep(join_delta) ==
    LET before == TotalClients(connected_clients)
        after == TotalClients(connected_clients')
        matched == IF last'.sid \in DOMAIN connected_clients THEN 1 ELSE 0
    IN CASE last'.kind = "join_room" -> after = before + join_delta
         [] last'.kind \in {"leave_room", "disconnect"} -> after = before - matched
         [] OTHER -> after = before

\* C2 (as stated): the number of live ClientRecords equals the number of
\* addClient calls minus the number of removeClient calls that matched a live
\* client.  Step form: the count starts at 0, every join (the one caller of
\* add_client_to_room) raises it by one, every leave or disconnect that finds a
\* record lowers it by one, and nothing else changes it.
C2_CountAddsMinusRemoves ==
    /\ handled = 0 => TotalClients(connected_clients) = 0
    /\ [][CountStep(1)]_vars

\* C2 (amended): the number of live ClientRecords equals the number of
\* addClient calls for a client that had no live record, minus the number of
\* removeClient calls that matched a live client; an addClient call for a client
\* that already has a record leaves the count unchanged.
C2_CountNewAddsMinusRemoves ==
    /\ handled = 0 => TotalClients(connected_clients) = 0
    /\ [][CountStep(IF last'.sid \in DOMAIN connected_clients THEN 0 ELSE 1)]_vars
\* a client has joined a second room without leaving and counts once
C2_Witness ==
    /\ last.kind = "join_room"
    /\ TotalClients(connected_clients) = 1
    /\ \E r \in DOMAIN rooms_state :
          r # connected_clients[last.sid].room /\ last.sid \in Members(rooms_state, r)


\* C3: every room-scoped rebroadcast of a command for room r is delivered to
\* exactly the registry members of r at that moment (the union of r's player
\* and controller lists).
C3_RebroadcastReachesMembers ==
    last.kind \in RoomCommands =>
        \A i \in EmittedAt :
            emitted[i].event # "rooms_update"
                => emitted[i].to = Members(rooms_state, last.room)

\* C4: playEpisode(movie, episode, filePath) on room r leaves r with
\* current_movie = movie, current_episode = episode, is_playing = TRUE and
\* current_time = 0 whatever r was before (a room that did not exist counts with
\* its initial values), and leaves r's volume and membership lists unchanged.
C4_PlayEpisodeResets ==
    [][ last'.kind = "play_episode" =>
          LET r == last'.room
              before == IF r \in DOMAIN rooms_state THEN rooms_state[r]
                        ELSE NewRoom(rooms_state'[r].created_at)
              after == rooms_state'[r]
          IN /\ r \in DOMAIN rooms_state'
             /\ after.current_movie = last'.args.movie
             /\ after.current_episode = last'.args.episode
             /\ after.is_playing = TRUE
             /\ after.current_time = 0
             /\ after.volume = before.volume
             /\ after.players = before.players
             /\ after.controllers = before.controllers ]_vars
\* playEpisode has run on a room that had its volume changed and has a member
C4_Witness ==
    /\ last.kind = "play_episode"
    /\ rooms_state[last.room].volume # DefaultVolume
    /\ Members(rooms_state, last.room) # {}
    /\ rooms_state[last.room].current_movie # None

\* the client is sent, in this order, a play directive with the given payload
\* and a state snapshot showing is_playing = TRUE and current_time = 0
ReceivesPlayThenSnapshot(msgs, c, payload) ==
    \E i, j \in 1..Len(msgs) :
        /\ i < j
        /\ msgs[i].event = "play_episode"
        /\ msgs[i].args = <<payload>>
        /\ c \in msgs[i].to
        /\ msgs[j].event = "state_update"
        /\ c \in msgs[j].to
        /\ Len(msgs[j].args) = 1
        /\ msgs[j].args[1].is_playing = TRUE
        /\ msgs[j].args[1].current_time = 0

\* C5: when playEpisode(movie, episode, filePath) for room r is processed,
\* every member of r (player or controller) receives a play directive carrying
\* exactly those values, followed by a state snapshot of r with
\* is_playing = TRUE and current_time = 0.
C5_MembersReceivePlay ==
    [][ last'.kind = "play_episode" =>
          \A c \in Members(rooms_state', last'.room) :
              ReceivesPlayThenSnapshot(emitted', c, last'.args) ]_vars

C7_RemovalKeepsPlayback ==
    [][ last'.kind \in {"leave_room", "disconnect"} =>
          \A r \in DOMAIN rooms_state :
              /\ r \in DOMAIN rooms_state'
              /\ Playback(rooms_state'[r]) = Playback(rooms_state[r]) ]_vars
\* the last member of a playing room has been removed
C7_Witness ==
    /\ last.kind \in {"leave_room", "disconnect"}
    /\ last.removed_from \in DOMAIN rooms_state
    /\ Members(rooms_state, last.removed_from) = {}
    /\ rooms_state[last.removed_from].current_movie \in Movies
    /\ rooms_state[last.removed_from].current_episode \in Episodes
    /\ rooms_state[last.removed_from].is_playing

\* C8: timeUpdate(time) on room r emits no message at all; it sets r's
\* current_time to time and changes no other field of r, no other room, no
\* client record and no Socket.IO room.
C8_TimeUpdateSilent ==
    [][ last'.kind = "time_update" =>
          LET r == last'.room
              before == IF r \in DOMAIN rooms_state THEN rooms_state[r]
                        ELSE NewRoom(rooms_state'[r].created_at)
          IN /\ emitted' = <<>>
             /\ UNCHANGED <<connected_clients, sids, sio_rooms>>
             /\ DOMAIN rooms_state' = DOMAIN rooms_state \cup {r}
             /\ rooms_state'[r].current_time = last'.args.time
             /\ rooms_state'[r] = [before EXCEPT !.current_time = last'.args.time]
             /\ \A o \in DOMAIN rooms_state \ {r} : rooms_state'[o] = rooms_state[o] ]_vars
\* a time report has moved the position of a playing room that has members
C8_Witness ==
    /\ last.kind = "time_update"
    /\ rooms_state[last.room].current_time > 0
    /\ rooms_state[last.room].is_playing
    /\ RoomRecipients(sids, sio_rooms, last.room) # {}
    /\ Members(rooms_state, last.room) # {}

\* C9 (as stated): every room-list broadcast is delivered to every connected
\* client and carries as payload the output of listRooms() plus
\* totalConnectedClients() on the registry after the triggering event.
C9_RoomListCarriesSnapshot ==
    \A i \in EmittedAt :
        emitted[i].event = "rooms_update" =>
            /\ emitted[i].to = sids
            /\ emitted[i].args = <<api_rooms(rooms_state, connected_clients)>>

\* C9 (amended): every room-list broadcast (after join, leave, disconnect,
\* playEpisode, playPause, videoEnded) is delivered to every connected client
\* regardless of room and carries no payload: it is a bare notification, and
\* the room list and client count are obtained separately from api_rooms.
C9_RoomListIsBareNotice ==
    /\ \A i \in EmittedAt :
          emitted[i].event = "rooms_update" =>
              /\ emitted[i].to = sids
              /\ emitted[i].args = <<>>
    /\ last.kind \in {"join_room", "leave_room", "disconnect", "play_episode",
                      "play_pause", "video_ended"}
          => \E i \in EmittedAt : emitted[i].event = "rooms_update"
\* a room-list notice went to two clients of which one never joined a room
C9_Witness ==
    /\ \E i \in EmittedAt : emitted[i].event = "rooms_update" /\ emitted[i].to = Clients
    /\ \E c \in sids : sio_rooms[c] = {} /\ c \notin DOMAIN connected_clients
    /\ \E r \in DOMAIN rooms_state : Members(rooms_state, r) # {}

\* position of a handler's state mutation in the order the mutations were
\* applied to the registry (0: the handler has not mutated yet)
AppliedPos(id) ==
    IF \E k \in 1..Len(applied) : applied[k] = id
      THEN CHOOSE k \in 1..Len(applied) : applied[k] = id
      ELSE 0

\* the messages a handler addresses to a room: its directive and its snapshot
RoomAddressed(m) == m.room \in RoomIds

\* C10: two events for one room reach a client that is in the room in the
\* order in which their state mutations were applied: of two messages
\* addressed to the same room by different handlers and received by the same
\* client, the one emitted first comes from the handler that mutated first
C10_DeliveryFollowsMutation ==
    \A i, j \in EmittedAt :
        ( /\ i < j
          /\ RoomAddressed(emitted[i]) /\ RoomAddressed(emitted[j])
          /\ emitted[i].room = emitted[j].room
          /\ emitted[i].by # emitted[j].by
          /\ AppliedPos(emitted[i].by) > 0 /\ AppliedPos(emitted[j].by) > 0
          /\ emitted[i].to \cap emitted[j].to # {} )
        => AppliedPos(emitted[i].by) < AppliedPos(emitted[j].by)

\* C11: listRooms() returns exactly one summary per room known to the registry,
\* rooms with zero clients included; each summary's players_count and
\* controllers_count equal the number of distinct clients in the room's player
\* and controller lists, and its current_movie, current_episode and is_playing
\* equal the room's current values.
C11_ListRoomsSummaries ==
    last.kind = "api_rooms" =>
        LET summaries == last.args.rooms
        IN /\ {s.id : s \in summaries} = DOMAIN rooms_state
           /\ Cardinality(summaries) = Cardinality(DOMAIN rooms_state)
           /\ \A s \in summaries :
                 /\ s.players_count = Cardinality(Elems(rooms_state[s.id].players))
                 /\ s.controllers_count = Cardinality(Elems(rooms_state[s.id].controllers))
                 /\ s.current_movie = rooms_state[s.id].current_movie
                 /\ s.current_episode = rooms_state[s.id].current_episode
                 /\ s.is_playing = rooms_state[s.id].is_playing
\* the list was requested with one room playing to a client and another room
\* empty
C11_Witness ==
    /\ last.kind = "api_rooms"
    /\ \E r, e \in DOMAIN rooms_state :
          /\ Members(rooms_state, r) # {}
          /\ rooms_state[r].is_playing
          /\ Members(rooms_state, e) = {}

\* C12: removeClient for a client that has no ClientRecord (a disconnect or
\* leave before any join, or a second leave) is a no-op: every room's
\* membership lists and playback state and the set of ClientRecords stay as
\* they were.
C12_RemoveAbsentIsNoOp ==
    [][ (last'.kind \in {"leave_room", "disconnect"}
            /\ last'.sid \notin DOMAIN connected_clients)
          => UNCHANGED <<rooms_state, connected_clients>> ]_vars
\* a client without a ClientRecord has left or disconnected while it was still in
\* a room's list
C12_Witness ==
    /\ last.kind \in {"leave_room", "disconnect"}
    /\ last.removed_from = None
    /\ \E r \in DOMAIN rooms_state : last.sid \in Members(rooms_state, r)

\* the list of a room that holds the clients of a role
RoleList(room_state, type) ==
    IF type = "player" THEN room_state.players ELSE room_state.controllers

\* C13: addClient(roomId, clientId, role) for a client that is already in
\* roomId's list for that role leaves every membership list and the number of
\* ClientRecords unchanged.
C13_AddIsIdempotent ==
    [][ (/\ last'.kind = "join_room"
         /\ last'.args.type \in ClientTypes
         /\ last'.room \in DOMAIN rooms_state
         /\ Contains(RoleList(rooms_state[last'.room], last'.args.type), last'.sid))
          => /\ DOMAIN rooms_state' = DOMAIN rooms_state
             /\ \A r \in DOMAIN rooms_state :
                   /\ rooms_state'[r].players = rooms_state[r].players
                   /\ rooms_state'[r].controllers = rooms_state[r].controllers
             /\ TotalClients(connected_clients') = TotalClients(connected_clients) ]_vars

\* the event data with a value given for key if it has none
Given(data, key, value) == IF key \in DOMAIN data THEN data ELSE data @@ (key :> value)
\* the same event with the defaulted values given explicitly: the room
\* "default", the time 0, the volume 1.0, the play flag false
Explicit(kind, data) ==
    LET d == Given(data, "room", "default")
    IN CASE kind = "play_pause" -> Given(d, "is_playing", FALSE)
         [] kind \in {"seek", "time_update"} -> Given(d, "time", 0)
         [] kind = "volume" -> Given(d, "volume", DefaultVolume)
         [] OTHER -> d
\* the event data a client can send with an event
DataOf(kind) ==
    CASE kind = "join_room" -> JoinData
      [] kind = "leave_room" -> LeaveData
      [] kind = "play_episode" -> PlayEpisodeData
      [] kind = "play_pause" -> PlayPauseData
      [] kind = "seek" -> SeekData
      [] kind = "volume" -> VolumeData
      [] kind = "fullscreen" -> FullscreenData
      [] kind = "time_update" -> TimeUpdateData
      [] kind = "video_ended" -> VideoEndedData
      [] OTHER -> {EmptyData}
\* the step is a run of the event's handler on the data
Run(kind, sid, data, now) ==
    CASE kind = "join_room" -> handle_join_room(sid, data, now)
      [] kind = "leave_room" -> handle_leave_room(sid, data)
      [] kind = "play_episode" -> handle_play_episode(data, now)
      [] kind = "play_pause" -> handle_play_pause(data, now)
      [] kind = "seek" -> handle_seek(data, now)
      [] kind = "volume" -> handle_volume(data, now)
      [] kind = "fullscreen" -> handle_fullscreen(data)
      [] kind = "time_update" -> handle_time_update(data, now)
      [] kind = "video_ended" -> handle_video_ended(data, now)
      [] OTHER -> FALSE
\* the event data with a missing field, by event and by the room they target
Incomplete ==
    [kind \in EventKinds, room_id \in RoomIds |->
        {d \in DataOf(kind) : Explicit(kind, d) # d /\ Get(d, "room", "default") = room_id}]
\* a run of the handler of one of the events on data with a missing field is
\* also a run of the handler on the same data with the values given
MissingAsExplicit(kinds) ==
    LET kind == last'.kind
    IN kind \in kinds =>
          \A data \in Incomplete[kind, last'.room], now \in Times :
              \A sid \in (IF kind \in SidEvents THEN {last'.sid} ELSE {None}) :
                  Run(kind, sid, data, now) => Run(kind, sid, Explicit(kind, data), now)

\* C14 (as stated): an event with missing fields is never rejected: a missing
\* room targets "default", a missing seek/timeUpdate time is applied as 0, a
\* missing volume as 1.0, a missing playPause flag as false, and the event has
\* exactly the effect (state and messages) of the same event with those values
\* given explicitly.
C14_MissingAsExplicit ==
    [][MissingAsExplicit(EventKinds \ {"connect", "disconnect", "api_room_state"})]_vars

\* C14 (amended): as stated for every event but fullscreen; a fullscreen event
\* without a room is sent to room "default" carrying its data as received, so
\* its message differs from that of the explicit event by the room key.
C14_MissingAsExplicitButEcho ==
    [][ /\ MissingAsExplicit(EventKinds \ {"connect", "disconnect", "api_room_state",
                                            "fullscreen"})
        /\ last'.kind = "fullscreen" =>
              /\ Len(emitted') = 1
              /\ emitted'[1].room = last'.room
              /\ emitted'[1].to = RoomRecipients(sids, sio_rooms, last'.room)
              /\ emitted'[1].args = <<last'.args>>
              /\ UNCHANGED <<rooms_state, connected_clients, sids, sio_rooms>> ]_vars
\* a play_pause has paused, in room "default", an episode playing to a client
C14_Witness ==
    /\ last.kind = "play_pause"
    /\ last.room = "default"
    /\ ~last.args.is_playing
    /\ rooms_state["default"].current_movie \in Movies
    /\ RoomRecipients(sids, sio_rooms, "default") # {}

\* the name contains a digit
HasNumber(name) == \E i \in 1..Len(name) : isdigit(name[i])
\* the first integer embedded in a name that has one
FirstInteger(name) ==
    LET i == CHOOSE k \in 1..Len(name) :
                 isdigit(name[k]) /\ \A h \in 1..(k - 1) : ~isdigit(name[h])
        j == CHOOSE k \in i..Len(name) :
                 /\ \A h \in i..k : isdigit(name[h])
                 /\ k = Len(name) \/ ~isdigit(name[k + 1])
    IN int(SubSeq(name, i, j))
\* a comes before b in lexicographic order
LexBefore(a, b) ==
    \/ Len(a) < Len(b) /\ SubSeq(b, 1, Len(a)) = a
    \/ \E i \in 1..Len(a) :
          /\ i <= Len(b)
          /\ SubSeq(a, 1, i - 1) = SubSeq(b, 1, i - 1)
          /\ ord(a[i]) < ord(b[i])
\* a comes before b in the ordering contract of the catalog
ComesBefore(a, b) ==
    IF HasNumber(a) /\ HasNumber(b)
    THEN \/ FirstInteger(a) < FirstInteger(b)
         \/ FirstInteger(a) = FirstInteger(b) /\ LexBefore(a, b)
    ELSE IF HasNumber(a) THEN TRUE
    ELSE IF HasNumber(b) THEN FALSE
    ELSE LexBefore(a, b)

\* C15: the catalog lists every episode of the movie once, ordered by the first
\* integer embedded in the name, ascending; names without a digit come after
\* all numbered ones; ties are broken by lexicographic order of the name.
C15_NaturalOrder ==
    last.kind = "api_movies" =>
        LET episodes == last.args.episodes
        IN /\ Len(episodes) = Cardinality(files)
           /\ Elems(episodes) = files
           /\ \A i, j \in 1..Len(episodes) :
                 i < j => ComesBefore(episodes[i], episodes[j])
\* the directory listed as ["2", "10", "1", "abc"] has been scanned
C15_Witness ==
    /\ last.kind = "api_movies"
    /\ last.args.listing = << <<"2">>, <<"1", "0">>, <<"1">>, <<"a", "b", "c">> >>
    /\ last.args.episodes = << <<"1">>, <<"2">>, <<"1", "0">>, <<"a", "b", "c">> >>

\* C16: under every interleaving of concurrent handlers, the state snapshot a
\* command broadcasts to the clients of its room shows the value this command itself wrote: after
\* play_pause(p) is_playing = p, after seek(t) current_time = t, after
\* volume(v) volume = v, after video_ended is_playing = false, after
\* play_episode the selected movie and episode, playing, at position 0.
C16_SnapshotShowsOwnWrite ==
    \A i, j \in EmittedAt :
        ( /\ i < j
          /\ emitted[i].by = emitted[j].by
          /\ emitted[i].event \in RoomCommands
          /\ emitted[j].event = "state_update"
          /\ RoomAddressed(emitted[j])
          /\ emitted[j].to # {} )
        => LET directive == emitted[i].args[1]
               snapshot == emitted[j].args[1]
           IN CASE emitted[i].event = "play_pause"
                     -> snapshot.is_playing = directive.is_playing
                [] emitted[i].event = "seek" -> snapshot.current_time = directive.time
                [] emitted[i].event = "volume" -> snapshot.volume = directive.volume
                [] emitted[i].event = "video_ended" -> ~snapshot.is_playing
                [] emitted[i].event = "play_episode"
                     -> /\ snapshot.current_movie = directive.movie
                        /\ snapshot.current_episode = directive.episode
                        /\ snapshot.is_playing
                        /\ snapshot.current_time = 0
                [] OTHER -> TRUE

\* C17: a room is initialised at most once: when handlers concurrently make the
\* first reference to a room, no handler stores a fresh room dict over one that
\* is in the registry, so that the dict's content is never replaced by fresh
\* defaults and every handler works on the dict the registry holds.
C17_RoomInitializedOnce ==
    [][ /\ \A r \in DOMAIN rooms_state :
              (\E t \in Threads, now \in Times : RoomOf(t) = r /\ GetCreate(t, now))
              => rooms_state'[r] = rooms_state[r]
        /\ \A t \in Threads : threads'[t].ref.held # "orphan" ]_vars

\* C18: after a disconnect or leave event of client c has been processed, c has
\* no client record and is in no room's player or controller list, whatever
\* joins c issued before.
C18_GoneAfterRemoval ==
    last.kind \in {"leave_room", "disconnect"} =>
        /\ last.sid \notin DOMAIN connected_clients
        /\ \A r \in DOMAIN rooms_state : last.sid \notin Members(rooms_state, r)

\* positions of the room-list broadcasts among the messages of the last event
RoomListBroadcasts == {i \in EmittedAt : emitted[i].event = "rooms_update"}

\* C19: the room list is broadcast (rooms_update, to every connected client)
\* exactly once for each processed join, leave, disconnect, play_episode,
\* play_pause and video_ended event, and never for a seek, volume, fullscreen or
\* time_update event.
C19_RoomListBroadcastOnce ==
    /\ last.kind \in {"join_room", "leave_room", "disconnect",
                      "play_episode", "play_pause", "video_ended"}
          => /\ Cardinality(RoomListBroadcasts) = 1
             /\ \A i \in RoomListBroadcasts : emitted[i].to = sids
    /\ last.kind \in {"seek", "volume", "fullscreen", "time_update"}
          => RoomListBroadcasts = {}
\* a video_ended event has been processed with two clients connected
C19_Witness ==
    /\ last.kind = "video_ended"
    /\ sids = Clients
    /\ Cardinality(RoomListBroadcasts) = 1

\* the events that name a room in C20
RoomNamingEvents ==
    {"join_room", "play_episode", "play_pause", "seek", "volume", "fullscreen",
     "time_update", "video_ended"}

\* C20: rooms are isolated: an event naming room r (join, play_episode,
\* play_pause, seek, volume, fullscreen, time_update, video_ended) leaves the
\* playback fields and the player and controller lists of every room other than
\* r unchanged, and creates no room other than r.
C20_RoomsIsolated ==
    [][ last'.kind \in RoomNamingEvents =>
          /\ DOMAIN rooms_state \subseteq DOMAIN rooms_state'
          /\ DOMAIN rooms_state' \subseteq DOMAIN rooms_state \cup {last'.room}
          /\ \A r \in DOMAIN rooms_state \ {last'.room} :
                /\ Playback(rooms_state'[r]) = Playback(rooms_state[r])
                /\ rooms_state'[r].players = rooms_state[r].players
                /\ rooms_state'[r].controllers = rooms_state[r].controllers ]_vars
\* an episode has been started in room "r1" while room "default", which has a
\* member, plays nothing
C20_Witness ==
    /\ last.kind = "play_episode"
    /\ last.room = "r1"
    /\ rooms_state["r1"].is_playing
    /\ "default" \in DOMAIN rooms_state
    /\ Members(rooms_state, "default") # {}
    /\ ~rooms_state["default"].is_playing
    /\ rooms_state["default"].current_movie = None

=============================================================================
